---- MODULE Spec2Model ----
(***************************************************************************)
(* Mutation-testing subsystem of the Ethereum DSL library: the operator    *)
(* catalogue, the MutationRegistry and the MutationTestRunner              *)
(* (test / testWithOperator / testAll) with its per-mutation               *)
(* Promise.race against a timer.                                           *)
(***************************************************************************)
EXTENDS Integers, Sequences, FiniteSets, TLC

\* ------------------------------------------------------------------------
\* Bounds of the model
\* ------------------------------------------------------------------------
\* number of entries of the array handed to testAll
MaxTests == 2

\* number of register() calls made on a registry after its construction
MaxRegister == 2

\* length of the strings and arrays used as seeds
MaxLen == 2

\* magnitude of the numbers and block numbers used as seeds
MaxNum == 2

\* largest numRuns option handed to PropertyTestRunner.test
MaxRuns == 3

\* ------------------------------------------------------------------------
\* JavaScript values: <<tag, payload>>.  Strings are sequences of
\* one-character strings, arrays are sequences of values.
\* ------------------------------------------------------------------------
Undefined == <<"undefined", 0>>
Null == <<"null", 0>>
Bool(b) == <<"boolean", b>>
Str(chars) == <<"string", chars>>
Num(n) == <<"number", n>>
BigIntV(n) == <<"bigint", n>>
Arr(elems) == <<"array", elems>>
Err(message) == <<"error", message>>

TypeOf(v) == v[1]

\* ToBoolean of the language: what `r.error` in a filter callback and
\* `!isValid` test.
Truthy(v) ==
  CASE v[1] = "undefined" -> FALSE
    [] v[1] = "null" -> FALSE
    [] v[1] = "boolean" -> v[2]
    [] v[1] = "number" -> v[2].mag # <<>>
    [] v[1] = "bigint" -> v[2].mag # <<>>
    [] v[1] = "string" -> Len(v[2]) > 0
    [] OTHER -> TRUE

\* Integers (the payload of numbers and bigints) are a sign and a
\* little-endian sequence of limbs without leading zero limbs, so that
\* 2n ** 64n and Number.MAX_SAFE_INTEGER are computed without wrap-around.
\* Numbers are the safe integers; fractions, NaN and infinities are outside
\* the inputs.
Base == 256 * 256

RECURSIVE Strip(_)
Strip(m) ==
  IF m # <<>> /\ m[Len(m)] = 0 THEN Strip(SubSeq(m, 1, Len(m) - 1)) ELSE m

RECURSIVE MagInc(_)
MagInc(m) ==
  IF m = <<>> THEN <<1>>
  ELSE IF m[1] + 1 < Base THEN <<m[1] + 1>> \o Tail(m)
  ELSE <<0>> \o MagInc(Tail(m))

RECURSIVE MagDecRaw(_)
MagDecRaw(m) ==
  IF m[1] > 0 THEN <<m[1] - 1>> \o Tail(m)
  ELSE <<Base - 1>> \o MagDecRaw(Tail(m))

\* m - 1 for m > 0
MagDec(m) == Strip(MagDecRaw(m))

RECURSIVE MagDoubleCarry(_, _)
MagDoubleCarry(m, c) ==
  IF m = <<>> THEN (IF c = 0 THEN <<>> ELSE <<c>>)
  ELSE <<(2 * m[1] + c) % Base>> \o MagDoubleCarry(Tail(m), (2 * m[1] + c) \div Base)

MagDouble(m) == MagDoubleCarry(m, 0)

\* floor(m / 2)
MagHalf(m) ==
  Strip([n \in 1..Len(m) |->
          (m[n] + (IF n < Len(m) THEN Base * (m[n + 1] % 2) ELSE 0)) \div 2])

RECURSIVE MagOfNat(_)
MagOfNat(n) == IF n = 0 THEN <<>> ELSE <<n % Base>> \o MagOfNat(n \div Base)

Big(neg, mag) == [neg |-> neg /\ mag # <<>>, mag |-> mag]

\* the integer literal n
IntOf(n) == IF n < 0 THEN Big(TRUE, MagOfNat(0 - n)) ELSE Big(FALSE, MagOfNat(n))

BigNeg(x) == Big(~x.neg, x.mag)

BigInc(x) == IF x.neg THEN Big(TRUE, MagDec(x.mag)) ELSE Big(FALSE, MagInc(x.mag))

BigDec(x) ==
  IF x.neg \/ x.mag = <<>> THEN Big(TRUE, MagInc(x.mag)) ELSE Big(FALSE, MagDec(x.mag))

BigDouble(x) == Big(x.neg, MagDouble(x.mag))

\* Math.floor(x / 2)
BigHalfFloor(x) ==
  IF x.neg THEN Big(TRUE, MagHalf(MagInc(x.mag))) ELSE Big(FALSE, MagHalf(x.mag))

\* 2n ** 64n - 1n
MaxUint64 == Big(FALSE, <<Base - 1, Base - 1, Base - 1, Base - 1>>)

\* Number.MAX_SAFE_INTEGER = 2^53 - 1, Number.MIN_SAFE_INTEGER = -(2^53 - 1)
MaxSafeInteger == Big(FALSE, <<Base - 1, Base - 1, Base - 1, 31>>)

MinSafeInteger == Big(TRUE, <<Base - 1, Base - 1, Base - 1, 31>>)

Range(s) == {s[n] : n \in 1..Len(s)}

Reverse(s) == [n \in 1..Len(s) |-> s[Len(s) + 1 - n]]

\* String.prototype.substring(start, end) on a character sequence, with the
\* clamping of the language (negative -> 0, beyond the end -> length, swap).
Clamp(n, len) == IF n < 0 THEN 0 ELSE IF n > len THEN len ELSE n

Substring(chars, start, end) ==
  LET a == Clamp(start, Len(chars))
      b == Clamp(end, Len(chars))
      lo == IF a < b THEN a ELSE b
      hi == IF a < b THEN b ELSE a
  IN  SubSeq(chars, lo + 1, hi)

LowerAlphabet ==
  <<"a", "b", "c", "d", "e", "f", "g", "h", "i", "j", "k", "l", "m",
    "n", "o", "p", "q", "r", "s", "t", "u", "v", "w", "x", "y", "z">>

UpperAlphabet ==
  <<"A", "B", "C", "D", "E", "F", "G", "H", "I", "J", "K", "L", "M",
    "N", "O", "P", "Q", "R", "S", "T", "U", "V", "W", "X", "Y", "Z">>

ToUpperChar(c) ==
  IF \E n \in 1..26 : LowerAlphabet[n] = c
    THEN UpperAlphabet[CHOOSE n \in 1..26 : LowerAlphabet[n] = c]
    ELSE c

ToLowerChar(c) ==
  IF \E n \in 1..26 : UpperAlphabet[n] = c
    THEN LowerAlphabet[CHOOSE n \in 1..26 : UpperAlphabet[n] = c]
    ELSE c

\* String.prototype.substring(start) with the end omitted
SubstringFrom(chars, start) == Substring(chars, start, Len(chars))

ToUpperCase(chars) == [n \in 1..Len(chars) |-> ToUpperChar(chars[n])]

ToLowerCase(chars) == [n \in 1..Len(chars) |-> ToLowerChar(chars[n])]

\* ------------------------------------------------------------------------
\* Completion records of a call that may throw
\* ------------------------------------------------------------------------
Normal(v) == [threw |-> FALSE, value |-> v, error |-> Undefined]
Throw(e) == [threw |-> TRUE, value |-> <<>>, error |-> e]

\* ------------------------------------------------------------------------
\* Type descriptors (types/primitive.ts and the inline descriptors of
\* operators.ts): name -> isValid
\* ------------------------------------------------------------------------
AllTags ==
  << Str(<<"l", "a", "t", "e", "s", "t">>),
     Str(<<"e", "a", "r", "l", "i", "e", "s", "t">>),
     Str(<<"p", "e", "n", "d", "i", "n", "g">>),
     Str(<<"s", "a", "f", "e">>),
     Str(<<"f", "i", "n", "a", "l", "i", "z", "e", "d">>) >>

HexDigits ==
  {"0", "1", "2", "3", "4", "5", "6", "7", "8", "9",
   "a", "b", "c", "d", "e", "f", "A", "B", "C", "D", "E", "F"}

\* the checksummed address of the repository's examples
WethAddress ==
  <<"0", "x", "C", "0", "2", "a", "a", "A", "3", "9", "b", "2", "2", "3",
    "F", "E", "8", "D", "0", "A", "0", "e", "5", "C", "4", "F", "2", "7",
    "e", "A", "D", "9", "0", "8", "3", "C", "7", "5", "6", "C", "c", "2">>

\* viem's checksumAddress hashes the lower-cased address; the model knows the
\* checksummed spelling of the addresses it uses and takes every other
\* mixed-case spelling as failing the checksum
KnownChecksummed == {WethAddress}

ChecksumAddress(chars) ==
  IF \E a \in KnownChecksummed : ToLowerCase(a) = ToLowerCase(chars)
    THEN CHOOSE a \in KnownChecksummed : ToLowerCase(a) = ToLowerCase(chars)
    ELSE ToLowerCase(chars)

\* viem isAddress (strict): /^0x[a-fA-F0-9]{40}$/, then all-lower-case or
\* equal to its checksummed spelling
IsAddress(chars) ==
  /\ Len(chars) = 42
  /\ chars[1] = "0"
  /\ chars[2] = "x"
  /\ \A n \in 3..42 : chars[n] \in HexDigits
  /\ \/ ToLowerCase(chars) = chars
     \/ ChecksumAddress(chars) = chars

\* viem isHex (strict): /^0x[0-9a-fA-F]*$/
IsHex(chars) ==
  /\ Len(chars) >= 2
  /\ chars[1] = "0"
  /\ chars[2] = "x"
  /\ \A n \in 3..Len(chars) : chars[n] \in HexDigits

TAddressIsValid(value) == TypeOf(value) = "string" /\ IsAddress(value[2])

THex32IsValid(value) ==
  TypeOf(value) = "string" /\ IsHex(value[2]) /\ Len(value[2]) = 66

TBlockNumberIsValid(value) == TypeOf(value) = "bigint" /\ ~value[2].neg

NumberIsValid(value) == TypeOf(value) = "number"

TBlockTagIsValid(value) == TypeOf(value) = "string" /\ value \in Range(AllTags)

BooleanIsValid(value) == TypeOf(value) = "boolean"

StringIsValid(value) == TypeOf(value) = "string"

ArrayIsValid(value) == TypeOf(value) = "array"

\* ------------------------------------------------------------------------
\* Mutation operators (operators.ts)
\* ------------------------------------------------------------------------
ZeroAddress ==
  <<"0", "x", "0", "0", "0", "0", "0", "0", "0", "0", "0", "0", "0", "0",
    "0", "0", "0", "0", "0", "0", "0", "0", "0", "0", "0", "0", "0", "0",
    "0", "0", "0", "0", "0", "0", "0", "0", "0", "0", "0", "0", "0", "0">>

ZeroHash ==
  <<"0", "x", "0", "0", "0", "0", "0", "0", "0", "0", "0", "0", "0", "0",
    "0", "0", "0", "0", "0", "0", "0", "0", "0", "0", "0", "0", "0", "0",
    "0", "0", "0", "0", "0", "0", "0", "0", "0", "0", "0", "0", "0", "0",
    "0", "0", "0", "0", "0", "0", "0", "0", "0", "0", "0", "0", "0", "0",
    "0", "0", "0", "0", "0", "0", "0", "0", "0", "0">>

AddressMutate(address) ==
  LET chars == address[2]
  IN  << Str(ToLowerCase(chars)),
         Str(Substring(chars, 0, 41) \o <<"0">>),
         Str(<<"0", "X">> \o SubstringFrom(chars, 2)),
         Str(ZeroAddress),
         Str(Substring(chars, 0, 10) \o <<"X">> \o SubstringFrom(chars, 11)) >>

\* [mutant] 64-bit unsigned arithmetic: seed + 1 and seed - 1 wrap around
BlockNumberMutateWrapped(blockNumber) ==
  << BigIntV(IntOf(0)),
     BigIntV(IntOf(1)),
     BigIntV(IF blockNumber[2] = MaxUint64
               THEN IntOf(0) ELSE BigInc(blockNumber[2])),
     BigIntV(IF blockNumber[2] = IntOf(0)
               THEN MaxUint64 ELSE BigDec(blockNumber[2])),
     BigIntV(MaxUint64),
     BigIntV(IntOf(-1)) >>

BlockNumberMutate(blockNumber) ==
  << BigIntV(IntOf(0)),
     BigIntV(IntOf(1)),
     BigIntV(BigInc(blockNumber[2])),
     BigIntV(BigDec(blockNumber[2])),
     BigIntV(MaxUint64),
     BigIntV(IntOf(-1)) >>

HashMutate(hash) ==
  LET chars == hash[2]
  IN  << Str(Substring(chars, 0, 10) \o <<"X">> \o SubstringFrom(chars, 11)),
         Str(<<"0", "X">> \o SubstringFrom(chars, 2)),
         Str(ZeroHash),
         Str(Substring(chars, 0, 65)),
         Str(chars \o <<"0">>) >>

\* [mutant] the halving is missing: the sixth candidate is the seed
NumberMutateKeepsSeed(value) ==
  << Num(IntOf(0)),
     Num(BigInc(value[2])),
     Num(BigDec(value[2])),
     Num(BigNeg(value[2])),
     Num(BigDouble(value[2])),
     Num(value[2]),
     Num(MaxSafeInteger),
     Num(MinSafeInteger) >>

NumberMutate(value) ==
  << Num(IntOf(0)),
     Num(BigInc(value[2])),
     Num(BigDec(value[2])),
     Num(BigNeg(value[2])),
     Num(BigDouble(value[2])),
     Num(BigHalfFloor(value[2])),
     Num(MaxSafeInteger),
     Num(MinSafeInteger) >>

\* [mutant] the seed is not filtered out
BlockTagMutateAll(blockTag) == AllTags

BlockTagMutate(blockTag) == SelectSeq(AllTags, LAMBDA tag : tag # blockTag)

\* [mutant] the seed is kept next to its negation
BooleanMutateBoth(value) == << Bool(~value[2]), Bool(value[2]) >>

BooleanMutate(value) == << Bool(~value[2]) >>

\* [mutant] the first character is dropped instead of the last
StringMutateDropFirst(value) ==
  LET chars == value[2]
  IN  << Str(<<>>),
         Str(chars \o <<"X">>),
         Str(SubstringFrom(chars, 1)),
         Str(ToUpperCase(chars)),
         Str(ToLowerCase(chars)),
         Str(Reverse(chars)) >>

\* [mutant] nothing is produced for the empty string
StringMutateGuarded(value) ==
  LET chars == value[2]
  IN  IF Len(chars) = 0
        THEN << >>
        ELSE << Str(<<>>),
                Str(chars \o <<"X">>),
                Str(Substring(chars, 0, Len(chars) - 1)),
                Str(ToUpperCase(chars)),
                Str(ToLowerCase(chars)),
                Str(Reverse(chars)) >>

StringMutate(value) ==
  LET chars == value[2]
  IN  << Str(<<>>),
         Str(chars \o <<"X">>),
         Str(Substring(chars, 0, Len(chars) - 1)),
         Str(ToUpperCase(chars)),
         Str(ToLowerCase(chars)),
         Str(Reverse(chars)) >>

\* [mutant] the empty seed has no special case
ArrayMutateNoPlaceholder(value) ==
  LET elems == value[2]
  IN  IF Len(elems) = 0
        THEN << Arr(<<>>) >>
        ELSE << Arr(<<>>),
                Arr(SubSeq(elems, 2, Len(elems))),
                Arr(SubSeq(elems, 1, Len(elems) - 1)),
                Arr(elems \o <<elems[1]>>),
                Arr(Reverse(elems)),
                Arr(<<elems[1]>>) >>

ArrayMutate(value) ==
  LET elems == value[2]
  IN  IF Len(elems) = 0
        THEN << Arr(<<Null>>) >>
        ELSE << Arr(<<>>),
                Arr(SubSeq(elems, 2, Len(elems))),
                Arr(SubSeq(elems, 1, Len(elems) - 1)),
                Arr(elems \o <<elems[1]>>),
                Arr(Reverse(elems)),
                Arr(<<elems[1]>>) >>

\* Operators supplied by a caller through the TypedMutationOperator
\* interface: one whose mutate throws, and one bound to the name Boolean
\* (it overrides the built-in operator) whose only candidate is the seed.
CustomOperators == {"ThrowingMutator", "KeepMutator"}

BuiltinOperators ==
  {"AddressMutator", "BlockTagMutator", "BlockNumberMutator", "HashMutator",
   "BooleanMutator", "NumberMutator", "StringMutator", "ArrayMutator"}

Operators == BuiltinOperators \cup CustomOperators

\* operator.type.name
OperatorTypeName(operator) ==
  CASE operator = "AddressMutator" -> "Address"
    [] operator = "BlockTagMutator" -> "BlockTag"
    [] operator = "BlockNumberMutator" -> "BlockNumber"
    [] operator = "HashMutator" -> "Hex32"
    [] operator = "BooleanMutator" -> "Boolean"
    [] operator = "NumberMutator" -> "Number"
    [] operator = "StringMutator" -> "String"
    [] operator = "ArrayMutator" -> "Array"
    [] operator = "ThrowingMutator" -> "Custom"
    [] operator = "KeepMutator" -> "Boolean"

\* operator.type.isValid(value)
OperatorTypeIsValid(operator, value) ==
  CASE operator = "AddressMutator" -> TAddressIsValid(value)
    [] operator = "BlockTagMutator" -> TBlockTagIsValid(value)
    [] operator = "BlockNumberMutator" -> TBlockNumberIsValid(value)
    [] operator = "HashMutator" -> THex32IsValid(value)
    [] operator = "BooleanMutator" -> BooleanIsValid(value)
    [] operator = "NumberMutator" -> NumberIsValid(value)
    [] operator = "StringMutator" -> StringIsValid(value)
    [] operator = "ArrayMutator" -> ArrayIsValid(value)
    [] operator = "ThrowingMutator" -> TRUE
    [] operator = "KeepMutator" -> BooleanIsValid(value)

\* BaseTypedMutationOperator.isApplicable
IsApplicable(operator, value) == OperatorTypeIsValid(operator, value)

\* operator.mutate(value), as a completion record
OperatorMutate(operator, value) ==
  CASE operator = "AddressMutator" -> Normal(AddressMutate(value))
    [] operator = "BlockTagMutator" -> Normal(BlockTagMutate(value))
    [] operator = "BlockNumberMutator" -> Normal(BlockNumberMutate(value))
    [] operator = "HashMutator" -> Normal(HashMutate(value))
    [] operator = "BooleanMutator" -> Normal(BooleanMutate(value))
    [] operator = "NumberMutator" -> Normal(NumberMutate(value))
    [] operator = "StringMutator" -> Normal(StringMutate(value))
    [] operator = "ArrayMutator" -> Normal(ArrayMutate(value))
    [] operator = "ThrowingMutator" -> Throw(Err("mutate failed"))
    [] operator = "KeepMutator" -> Normal(<<value>>)

\* ------------------------------------------------------------------------
\* MutationRegistry (registry.ts): a Map from type name to operator
\* ------------------------------------------------------------------------
NoOperator == "undefined"

EmptyMap == [n \in {} |-> NoOperator]

\* Map.prototype.set
MapSet(map, key, val) ==
  [n \in (DOMAIN map) \cup {key} |-> IF n = key THEN val ELSE map[n]]

\* [mutant] an operator already bound to the name is kept
RegistryRegisterKeepFirst(ops, operator) ==
  IF OperatorTypeName(operator) \in DOMAIN ops
    THEN ops
    ELSE MapSet(ops, OperatorTypeName(operator), operator)

\* register(operator)
RegistryRegister(ops, operator) ==
  MapSet(ops, OperatorTypeName(operator), operator)

\* [mutant] the last built-in operator is not registered
RegisterDefaultsSeven(ops) ==
  LET r1 == RegistryRegister(ops, "AddressMutator")
      r2 == RegistryRegister(r1, "BlockTagMutator")
      r3 == RegistryRegister(r2, "BlockNumberMutator")
      r4 == RegistryRegister(r3, "HashMutator")
      r5 == RegistryRegister(r4, "BooleanMutator")
      r6 == RegistryRegister(r5, "NumberMutator")
  IN  RegistryRegister(r6, "StringMutator")

\* registerDefaults()
RegisterDefaults(ops) ==
  LET r1 == RegistryRegister(ops, "AddressMutator")
      r2 == RegistryRegister(r1, "BlockTagMutator")
      r3 == RegistryRegister(r2, "BlockNumberMutator")
      r4 == RegistryRegister(r3, "HashMutator")
      r5 == RegistryRegister(r4, "BooleanMutator")
      r6 == RegistryRegister(r5, "NumberMutator")
      r7 == RegistryRegister(r6, "StringMutator")
  IN  RegistryRegister(r7, "ArrayMutator")

\* constructor(includeDefaults)
Constructor(includeDefaults) ==
  IF includeDefaults THEN RegisterDefaults(EmptyMap) ELSE EmptyMap

\* getOperator(type): Map.get by type.name
GetOperator(ops, type) ==
  IF type \in DOMAIN ops THEN ops[type] ELSE NoOperator

\* getAllOperators()
GetAllOperators(ops) == {ops[n] : n \in DOMAIN ops}

\* [mutant] the operator found is used without asking isApplicable
RegistryDispatchesAnyValue(ops, value, type) ==
  GetOperator(ops, type) # NoOperator

\* does mutate(value, type) reach operator.mutate?
RegistryDispatches(ops, value, type) ==
  /\ GetOperator(ops, type) # NoOperator
  /\ IsApplicable(GetOperator(ops, type), value)

\* [mutant] a lookup miss is an error
RegistryMutateThrowsOnMiss(ops, value, type) ==
  IF RegistryDispatches(ops, value, type)
    THEN OperatorMutate(GetOperator(ops, type), value)
    ELSE Throw(Err("no operator"))

\* [mutant] a lookup miss yields no candidate
RegistryMutateEmptyFallback(ops, value, type) ==
  IF RegistryDispatches(ops, value, type)
    THEN OperatorMutate(GetOperator(ops, type), value)
    ELSE Normal(<<>>)

\* mutate(value, type), as a completion record
RegistryMutate(ops, value, type) ==
  IF RegistryDispatches(ops, value, type)
    THEN OperatorMutate(GetOperator(ops, type), value)
    ELSE Normal(<<value>>)

\* ------------------------------------------------------------------------
\* MutationTestRunner (runner.ts)
\* ------------------------------------------------------------------------
\* values a validator may throw or reject with: an Error object, and nothing
\* at all (`throw undefined`, `Promise.reject()`)
ThrownValues == {Err("Boom"), Undefined}

\* new Error('Timeout')
TimeoutError == Err("Timeout")

\* the literal of `options.timeout || 5000`
DefaultTimeout == 5000

\* options.timeout || 5000: the delay handed to setTimeout
TimerDelay(timeout) ==
  IF Truthy(timeout) THEN timeout ELSE Num(IntOf(DefaultTimeout))

\* new Error(`Operator ${operator.name} is not applicable to value ${value}`)
NotApplicableError == Err("not applicable")

\* [mutant] the classification with the negation dropped
ClassifySettledInverted(mutation, isValid) ==
  [value |-> mutation, caught |-> Truthy(isValid)]

\* results.push({ value: mutation, caught: !isValid })
ClassifySettled(mutation, isValid) ==
  [value |-> mutation, caught |-> ~Truthy(isValid)]

\* [mutant] an errored attempt counted as not caught
ClassifyThrownUncaught(mutation, error) ==
  [value |-> mutation, caught |-> FALSE, error |-> error]

\* results.push({ value: mutation, caught: true, error: error as Error })
ClassifyThrown(mutation, error) ==
  [value |-> mutation, caught |-> TRUE, error |-> error]

\* r.error: reading a property that was never set yields undefined
ErrorOf(r) == IF "error" \in DOMAIN r THEN r.error ELSE Undefined

\* the summary object literal of the return statement;
\* results.filter(f).length is the number of indices whose element passes f
Summary(rs) ==
  [total |-> Len(rs),
   caught |-> Cardinality({n \in 1..Len(rs) : rs[n].caught}),
   uncaught |-> Cardinality({n \in 1..Len(rs) : ~rs[n].caught}),
   errors |-> Cardinality({n \in 1..Len(rs) : Truthy(ErrorOf(rs[n]))})]

\* the MutationTestResult object literal of the return statement
MutationTestResult(value, rs) ==
  [originalValue |-> value, mutations |-> rs, summary |-> Summary(rs)]

\* ------------------------------------------------------------------------
\* PropertyTestRunner (testing/property/runner.ts)
\* ------------------------------------------------------------------------
\* the literal of `options.numRuns || 100`
DefaultNumRuns == 100

\* the literal of Math.min(numRuns, 10)
SampleCap == 10

\* Date.now()
Now == Num(IntOf(1))

\* the integer a number value stands for (one-limb numbers)
ToInt(v) ==
  IF v[2].mag = <<>> THEN 0
  ELSE IF v[2].neg THEN 0 - v[2].mag[1] ELSE v[2].mag[1]

Min(a, b) == IF a < b THEN a ELSE b

\* String(e) for the values thrown here
ToStringJS(v) ==
  CASE TypeOf(v) = "undefined" -> "undefined"
    [] TypeOf(v) = "null" -> "null"
    [] TypeOf(v) = "boolean" -> (IF v[2] THEN "true" ELSE "false")
    [] TypeOf(v) = "error" -> v[2]

\* e instanceof Error ? e : new Error(String(e))
ToError(e) == IF TypeOf(e) = "error" THEN e ELSE Err(ToStringJS(e))

\* the PropertyTestResult object literal of the return statement
PropertyTestResult(p) ==
  [success |-> p.success, numRuns |-> p.numRuns, seed |-> p.seed,
   counterexample |-> p.counterexample, error |-> p.error]

\* options.numRuns of the calls: absent and 0..MaxRuns
NumRunsOptions == {Undefined} \cup {Num(IntOf(n)) : n \in 0..MaxRuns}

\* values property.generate() returns
GeneratedValues == {Num(IntOf(42)), Num(IntOf(0))}

\* ------------------------------------------------------------------------
\* Inputs of the calls
\* ------------------------------------------------------------------------
\* the validators of the repository's scenarios: v => v === 42, and a
\* validator that accepts exactly what TAddress.isValid accepts
ValidatorApply(validator, v) ==
  CASE validator = "equals42" -> Bool(v = Num(IntOf(42)))
    [] validator = "isAddress" -> Bool(TAddressIsValid(v))

Latest == AllTags[1]

\* (value, type descriptor) pairs handed to test; the registry reads only
\* the descriptor's name; timeout is the field of the options argument
\* options.timeout: absent, zero, and a positive number of milliseconds
TimeoutOptions == {Undefined, Num(IntOf(0)), Num(IntOf(100))}

\* validator is the callback: "any" is a callback of which nothing is known
\* (it may throw, answer either way, or return a promise), the others are
\* the synchronous callbacks of ValidatorApply
TestInputs ==
  { [value |-> Bool(TRUE), type |-> "Boolean", timeout |-> Undefined,
     validator |-> "any"],
    [value |-> Latest, type |-> "BlockTag", timeout |-> Undefined,
     validator |-> "any"],
    [value |-> Arr(<<>>), type |-> "Array", timeout |-> Undefined,
     validator |-> "any"],
    [value |-> Bool(FALSE), type |-> "BlockTag", timeout |-> Undefined,
     validator |-> "any"],
    [value |-> Num(IntOf(1)), type |-> "Custom", timeout |-> Undefined,
     validator |-> "any"],
    [value |-> Num(IntOf(42)), type |-> "Number", timeout |-> Undefined,
     validator |-> "equals42"],
    [value |-> Str(WethAddress), type |-> "Address", timeout |-> Undefined,
     validator |-> "isAddress"] }
    \cup { [value |-> Bool(TRUE), type |-> "Boolean", timeout |-> timeout,
             validator |-> "any"] :
             timeout \in TimeoutOptions }

\* (value, operator) pairs handed to testWithOperator
TestWithOperatorInputs ==
  { [value |-> Bool(FALSE), operator |-> "BooleanMutator"],
    [value |-> Bool(FALSE), operator |-> "BlockTagMutator"],
    [value |-> Latest, operator |-> "BlockTagMutator"],
    [value |-> Bool(TRUE), operator |-> "KeepMutator"],
    [value |-> Num(IntOf(1)), operator |-> "ThrowingMutator"] }

\* entries of the array handed to testAll
BatchNames == {"a", "b"}

BatchInputs ==
  { [value |-> Bool(TRUE), type |-> "Boolean"],
    [value |-> Num(IntOf(1)), type |-> "Custom"] }

BatchEntries ==
  { [name |-> n, value |-> t.value, type |-> t.type] :
      n \in BatchNames, t \in BatchInputs }

SeqsUpTo(S, n) == UNION {[1..m -> S] : m \in 0..n}

\* operators handed to register() in direct use of the registry
RegisterInputs == CustomOperators \cup {"BooleanMutator", "ArrayMutator"}

\* names of the type descriptors in use, and one no operator is bound to
TypeNames == {OperatorTypeName(operator) : operator \in Operators} \cup {"Unknown"}

\* descriptor objects: the one an operator carries as its type, and another
\* object with the same name
Descriptors == [name : TypeNames, object : {"own", "other"}]

StrChars == {"a", "B"}

ArrayElems == {Null, Bool(TRUE), Num(IntOf(1))}

\* values handed to mutate as seeds
Seeds ==
  {Bool(TRUE), Bool(FALSE), Null, Undefined}
    \cup Range(AllTags)
    \cup {Str(chars) : chars \in SeqsUpTo(StrChars, MaxLen)}
    \cup {Arr(elems) : elems \in SeqsUpTo(ArrayElems, MaxLen)}
    \cup {Num(IntOf(n)) : n \in (0 - MaxNum)..MaxNum}
    \cup {Num(IntOf(42))}
    \cup {BigIntV(IntOf(n)) : n \in (0 - 1)..MaxNum}
    \cup {BigIntV(MaxUint64)}
    \cup {Str(WethAddress), Str(ToLowerCase(WethAddress)), Str(ZeroAddress),
          Str(ZeroHash), Str(<<"0", "x">>)}

\* ------------------------------------------------------------------------
\* State
\* ------------------------------------------------------------------------
VARIABLES
  includeDefaults, \* the argument the registry was constructed with
  operators,   \* MutationRegistry.operators
  registered,  \* the operators handed to register() since, in call order
  query,       \* the last direct call on the registry or on an operator
  answer,      \* what that call returned, as a completion record
  call,        \* the call in progress: kind, tests (entries), operator
  pc,          \* position of the async call
  k,           \* index of the entry whose test is running
  i,           \* index of the candidate the for-of loop is at
  mutations,   \* mutations[k]: the candidate list of the k-th test
  results,     \* results[k]: the results array of the k-th test
  invs,        \* validator invocations started, with their timers
  returned,    \* MutationTestResults returned by the tests, in order
  allResults,  \* testAll's results record
  outcome,     \* state of the promise returned by the call
  thrown,      \* rejection reason of that promise
  mutateLog,   \* <<operator, seed>> of every operator.mutate call
  prop         \* the locals of a PropertyTestRunner.test call

vars ==
  <<includeDefaults, operators, registered, query, answer, call, pc, k, i, mutations, results, invs,
    returned, allResults, outcome, thrown, mutateLog, prop>>

NoCall ==
  [kind |-> "none", tests |-> <<>>, operator |-> NoOperator,
   timeout |-> Undefined, validator |-> "any"]

NoQuery == [method |-> "none"]

\* no PropertyTestRunner.test call was made
NoProp ==
  [pc |-> "idle", options |-> Undefined, numRuns |-> Undefined,
   seed |-> Undefined, i |-> 0, success |-> TRUE, value |-> Undefined,
   counterexample |-> Undefined, error |-> Undefined, calls |-> 0,
   stop |-> <<"none", Undefined>>, result |-> Undefined]

Init ==
  /\ includeDefaults \in BOOLEAN
  /\ operators = Constructor(includeDefaults)
  /\ registered = <<>>
  /\ query = NoQuery
  /\ answer = Normal(Undefined)
  /\ call = NoCall
  /\ pc = "idle"
  /\ k = 0
  /\ i = 0
  /\ mutations = <<>>
  /\ results = <<>>
  /\ invs = <<>>
  /\ returned = <<>>
  /\ allResults = [n \in {} |-> 0]
  /\ outcome = "none"
  /\ thrown = Undefined
  /\ mutateLog = <<>>
  /\ prop = NoProp

\* registry.register(operator), before the runner is used; an operator is
\* handed to register at most once
Register(operator) ==
  /\ pc = "idle"
  /\ Len(registered) < MaxRegister
  /\ \A n \in 1..Len(registered) : registered[n] # operator
  /\ operators' = RegistryRegister(operators, operator)
  /\ registered' = Append(registered, operator)
  /\ query' = [method |-> "register", operator |-> operator]
  /\ answer' = Normal(Undefined)
  /\ UNCHANGED <<includeDefaults, prop, call, pc, k, i,
                 mutations, results, invs, returned,
                 allResults, outcome, thrown, mutateLog>>

\* a lookup was made on the registry or an operator; lookups leave the
\* registry as it is, so one per behaviour is followed
Looked == query.method \notin {"none", "register"}

\* registry.getOperator(type)
GetOperatorCall ==
  /\ pc = "idle"
  /\ ~Looked
  /\ \E type \in Descriptors :
       /\ query' = [method |-> "getOperator", type |-> type]
       /\ answer' = Normal(GetOperator(operators, type.name))
  /\ UNCHANGED <<includeDefaults, operators, registered, prop, call, pc, k, i,
                 mutations, results, invs, returned, allResults, outcome,
                 thrown, mutateLog>>

\* registry.getAllOperators()
GetAllOperatorsCall ==
  /\ pc = "idle"
  /\ ~Looked
  /\ query' = [method |-> "getAllOperators"]
  /\ answer' = Normal(GetAllOperators(operators))
  /\ UNCHANGED <<includeDefaults, operators, registered, prop, call, pc, k, i,
                 mutations, results, invs, returned, allResults, outcome,
                 thrown, mutateLog>>

\* registry.mutate(value, type)
MutateCall ==
  /\ pc = "idle"
  /\ ~Looked
  /\ \E value \in Seeds, type \in Descriptors :
       /\ query' = [method |-> "mutate", value |-> value, type |-> type]
       /\ answer' = RegistryMutate(operators, value, type.name)
  /\ UNCHANGED <<includeDefaults, operators, registered, prop, call, pc, k, i,
                 mutations, results, invs, returned, allResults, outcome,
                 thrown, mutateLog>>

\* operator.mutate(value) on an operator object, with a value of the
\* operator's type
OperatorMutateCall ==
  /\ pc = "idle"
  /\ ~Looked
  /\ \E operator \in Operators, value \in Seeds :
       /\ IsApplicable(operator, value)
       /\ query' = [method |-> "operator.mutate", operator |-> operator,
                    value |-> value]
       /\ answer' = OperatorMutate(operator, value)
  /\ UNCHANGED <<includeDefaults, operators, registered, prop, call, pc, k, i,
                 mutations, results, invs, returned, allResults, outcome,
                 thrown, mutateLog>>

\* PropertyTestRunner.test(property, predicate, options):
\* const numRuns = options.numRuns || 100; const seed = ... || Date.now();
\* let success = true; let counterexample; let error; i = 0
PropertyTestCall(numRuns) ==
  /\ pc = "idle"
  /\ prop.pc = "idle"
  /\ prop' = [NoProp EXCEPT
                !.pc = "loop",
                !.options = numRuns,
                !.numRuns = IF Truthy(numRuns)
                              THEN numRuns ELSE Num(IntOf(DefaultNumRuns)),
                !.seed = Now]
  /\ UNCHANGED <<includeDefaults, operators, registered, query, answer,
                 call, pc, k, i, mutations, results, invs, returned,
                 allResults, outcome, thrown, mutateLog>>

\* i < Math.min(numRuns, 10); const value = await property.generate();
\* generate returns a value, or throws and the catch block breaks
PropertyGenerate ==
  /\ prop.pc = "loop"
  /\ prop.i < Min(ToInt(prop.numRuns), SampleCap)
  /\ \/ \E value \in GeneratedValues :
          prop' = [prop EXCEPT !.value = value, !.calls = @ + 1,
                               !.pc = "check"]
     \/ \E e \in ThrownValues :
          prop' = [prop EXCEPT !.calls = @ + 1, !.success = FALSE,
                               !.error = ToError(e),
                               !.stop = <<"generate threw", e>>,
                               !.pc = "return"]
  /\ UNCHANGED <<includeDefaults, operators, registered, query, answer,
                 call, pc, k, i, mutations, results, invs, returned,
                 allResults, outcome, thrown, mutateLog>>

\* [mutant] a failing sample does not end the loop
PropertyCheckNoBreak ==
  /\ prop.pc = "check"
  /\ \/ \E result \in {Bool(TRUE), Bool(FALSE)} :
          IF Truthy(result)
            THEN prop' = [prop EXCEPT !.i = @ + 1, !.pc = "loop"]
            ELSE prop' = [prop EXCEPT !.success = FALSE,
                                      !.counterexample = prop.value,
                                      !.stop = <<"predicate false", prop.value>>,
                                      !.i = @ + 1,
                                      !.pc = "loop"]
     \/ \E e \in ThrownValues :
          prop' = [prop EXCEPT !.success = FALSE, !.error = ToError(e),
                               !.stop = <<"predicate threw", e>>,
                               !.pc = "return"]
  /\ UNCHANGED <<includeDefaults, operators, registered, query, answer,
                 call, pc, k, i, mutations, results, invs, returned,
                 allResults, outcome, thrown, mutateLog>>

\* const result = await predicate(value); if (!result) { ...; break; }
\* and the catch block for a predicate that throws or rejects; i++
PropertyCheck ==
  /\ prop.pc = "check"
  /\ \/ \E result \in {Bool(TRUE), Bool(FALSE)} :
          IF Truthy(result)
            THEN prop' = [prop EXCEPT !.i = @ + 1, !.pc = "loop"]
            ELSE prop' = [prop EXCEPT !.success = FALSE,
                                      !.counterexample = prop.value,
                                      !.stop = <<"predicate false", prop.value>>,
                                      !.pc = "return"]
     \/ \E e \in ThrownValues :
          prop' = [prop EXCEPT !.success = FALSE, !.error = ToError(e),
                               !.stop = <<"predicate threw", e>>,
                               !.pc = "return"]
  /\ UNCHANGED <<includeDefaults, operators, registered, query, answer,
                 call, pc, k, i, mutations, results, invs, returned,
                 allResults, outcome, thrown, mutateLog>>

\* return { success, numRuns, seed, counterexample, error } after a break
\* or when the loop condition fails
PropertyReturn ==
  /\ \/ prop.pc = "return"
     \/ /\ prop.pc = "loop"
        /\ ~(prop.i < Min(ToInt(prop.numRuns), SampleCap))
  /\ prop' = [prop EXCEPT !.result = PropertyTestResult(prop), !.pc = "done"]
  /\ UNCHANGED <<includeDefaults, operators, registered, query, answer,
                 call, pc, k, i, mutations, results, invs, returned,
                 allResults, outcome, thrown, mutateLog>>

\* runner.test(value, type, validator)
CallTest(input) ==
  /\ pc = "idle"
  /\ call' = [kind |-> "test",
              tests |-> << [name |-> "", value |-> input.value,
                            type |-> input.type] >>,
              operator |-> NoOperator,
              timeout |-> input.timeout,
              validator |-> input.validator]
  /\ pc' = "begin"
  /\ k' = 1
  /\ outcome' = "pending"
  /\ UNCHANGED <<includeDefaults, operators, registered, query, answer, prop,
                 i, mutations, results, invs,
                 returned, allResults, thrown, mutateLog>>

\* runner.testWithOperator(value, operator, validator)
CallTestWithOperator(input) ==
  /\ pc = "idle"
  /\ call' = [kind |-> "testWithOperator",
              tests |-> << [name |-> "", value |-> input.value,
                            type |-> OperatorTypeName(input.operator)] >>,
              operator |-> input.operator,
              timeout |-> Undefined,
              validator |-> "any"]
  /\ pc' = "begin"
  /\ k' = 1
  /\ outcome' = "pending"
  /\ UNCHANGED <<includeDefaults, operators, registered, query, answer, prop,
                 i, mutations, results, invs,
                 returned, allResults, thrown, mutateLog>>

\* runner.testAll(tests)
CallTestAll(tests) ==
  /\ pc = "idle"
  /\ call' = [kind |-> "testAll", tests |-> tests, operator |-> NoOperator,
              timeout |-> Undefined, validator |-> "any"]
  /\ pc' = "begin"
  /\ k' = 1
  /\ outcome' = "pending"
  /\ UNCHANGED <<includeDefaults, operators, registered, query, answer, prop,
                 i, mutations, results, invs,
                 returned, allResults, thrown, mutateLog>>

\* [mutant] the tests of the entries are started without waiting for the one
\* before: the next entry's test begins while a test is in its loop
BeginTestEager ==
  /\ pc \in {"begin", "loop"}
  /\ call.kind \in {"test", "testAll"}
  /\ Len(mutations) < Len(call.tests)
  /\ LET t == call.tests[Len(mutations) + 1]
         m == RegistryMutate(operators, t.value, t.type)
     IN  /\ mutateLog' =
              IF RegistryDispatches(operators, t.value, t.type)
                THEN Append(mutateLog, <<GetOperator(operators, t.type), t.value>>)
                ELSE mutateLog
         /\ IF m.threw
              THEN /\ outcome' = "rejected"
                   /\ thrown' = m.error
                   /\ pc' = "done"
                   /\ UNCHANGED <<mutations, results, i>>
              ELSE /\ mutations' = Append(mutations, m.value)
                   /\ results' = Append(results, <<>>)
                   /\ i' = 1
                   /\ pc' = "loop"
                   /\ UNCHANGED <<outcome, thrown>>
  /\ UNCHANGED <<includeDefaults, operators, registered, query, answer, prop,
                 call, k, invs, returned, allResults>>

\* const mutations = this.registry.mutate(value, type); const results = [];
\* a throw here rejects the promise of test, and with it that of testAll,
\* whose loop has no handler around `await this.test(...)`
BeginTest ==
  /\ pc = "begin"
  /\ call.kind \in {"test", "testAll"}
  /\ k <= Len(call.tests)
  /\ LET t == call.tests[k]
         m == RegistryMutate(operators, t.value, t.type)
     IN  /\ mutateLog' =
              IF RegistryDispatches(operators, t.value, t.type)
                THEN Append(mutateLog, <<GetOperator(operators, t.type), t.value>>)
                ELSE mutateLog
         /\ IF m.threw
              THEN /\ outcome' = "rejected"
                   /\ thrown' = m.error
                   /\ pc' = "done"
                   /\ UNCHANGED <<mutations, results, i>>
              ELSE /\ mutations' = Append(mutations, m.value)
                   /\ results' = Append(results, <<>>)
                   /\ i' = 1
                   /\ pc' = "loop"
                   /\ UNCHANGED <<outcome, thrown>>
  /\ UNCHANGED <<includeDefaults, operators, registered, query, answer, prop,
                 call, k, invs, returned, allResults>>

\* [mutant] the applicability check is missing
BeginTestWithOperatorUnchecked ==
  /\ pc = "begin"
  /\ call.kind = "testWithOperator"
  /\ LET t == call.tests[k]
         m == OperatorMutate(call.operator, t.value)
     IN  /\ mutateLog' = Append(mutateLog, <<call.operator, t.value>>)
         /\ IF m.threw
              THEN /\ outcome' = "rejected"
                   /\ thrown' = m.error
                   /\ pc' = "done"
                   /\ UNCHANGED <<mutations, results, i>>
              ELSE /\ mutations' = Append(mutations, m.value)
                   /\ results' = Append(results, <<>>)
                   /\ i' = 1
                   /\ pc' = "loop"
                   /\ UNCHANGED <<outcome, thrown>>
  /\ UNCHANGED <<includeDefaults, operators, registered, query, answer, prop,
                 call, k, invs, returned, allResults>>

\* [mutant] testWithOperator walks the candidates in the opposite order
BeginTestWithOperatorReversed ==
  /\ pc = "begin"
  /\ call.kind = "testWithOperator"
  /\ LET t == call.tests[k]
         m == OperatorMutate(call.operator, t.value)
     IN  IF ~IsApplicable(call.operator, t.value)
           THEN /\ outcome' = "rejected"
                /\ thrown' = NotApplicableError
                /\ pc' = "done"
                /\ UNCHANGED <<mutations, results, i, mutateLog>>
           ELSE /\ mutateLog' = Append(mutateLog, <<call.operator, t.value>>)
                /\ IF m.threw
                     THEN /\ outcome' = "rejected"
                          /\ thrown' = m.error
                          /\ pc' = "done"
                          /\ UNCHANGED <<mutations, results, i>>
                     ELSE /\ mutations' = Append(mutations, Reverse(m.value))
                          /\ results' = Append(results, <<>>)
                          /\ i' = 1
                          /\ pc' = "loop"
                          /\ UNCHANGED <<outcome, thrown>>
  /\ UNCHANGED <<includeDefaults, operators, registered, query, answer, prop,
                 call, k, invs, returned, allResults>>

\* if (!operator.isApplicable(value)) throw ...;
\* const mutations = operator.mutate(value); const results = [];
BeginTestWithOperator ==
  /\ pc = "begin"
  /\ call.kind = "testWithOperator"
  /\ LET t == call.tests[k]
         m == OperatorMutate(call.operator, t.value)
     IN  IF ~IsApplicable(call.operator, t.value)
           THEN /\ outcome' = "rejected"
                /\ thrown' = NotApplicableError
                /\ pc' = "done"
                /\ UNCHANGED <<mutations, results, i, mutateLog>>
           ELSE /\ mutateLog' = Append(mutateLog, <<call.operator, t.value>>)
                /\ IF m.threw
                     THEN /\ outcome' = "rejected"
                          /\ thrown' = m.error
                          /\ pc' = "done"
                          /\ UNCHANGED <<mutations, results, i>>
                     ELSE /\ mutations' = Append(mutations, m.value)
                          /\ results' = Append(results, <<>>)
                          /\ i' = 1
                          /\ pc' = "loop"
                          /\ UNCHANGED <<outcome, thrown>>
  /\ UNCHANGED <<includeDefaults, operators, registered, query, answer, prop,
                 call, k, invs, returned, allResults>>

\* a validator invocation and the timer raced against it: out is the state
\* of the validator's promise, settled the value the race received from it,
\* delay the delay the timer was created with
Invocation(mutation, out, settled, timer, race) ==
  [entry |-> k, index |-> i, value |-> mutation, out |-> out,
   settled |-> settled, timer |-> timer, race |-> race,
   delay |-> IF timer = "none" THEN Undefined ELSE TimerDelay(call.timeout)]

\* the try branch after the await: push the classified result, next iteration
Settled(mutation, isValid) ==
  /\ results' = [results EXCEPT ![k] = Append(@, ClassifySettled(mutation, isValid))]
  /\ i' = i + 1
  /\ pc' = "loop"
  /\ UNCHANGED <<outcome, thrown>>

\* [mutant] the catch block records the error and leaves the loop
CaughtAborts(mutation, error) ==
  /\ results' = [results EXCEPT ![k] = Append(@, ClassifyThrown(mutation, error))]
  /\ i' = Len(mutations[k]) + 1
  /\ pc' = "loop"
  /\ UNCHANGED <<outcome, thrown>>

\* [mutant] no handler around the await: the error rejects the call
CaughtRethrows(mutation, error) ==
  /\ outcome' = "rejected"
  /\ thrown' = error
  /\ pc' = "done"
  /\ UNCHANGED <<results, i>>

\* the catch block: push the errored result, next iteration
Caught(mutation, error) ==
  /\ results' = [results EXCEPT ![k] = Append(@, ClassifyThrown(mutation, error))]
  /\ i' = i + 1
  /\ pc' = "loop"
  /\ UNCHANGED <<outcome, thrown>>

\* [mutant] the promise is not awaited: the loop goes on to the next candidate
SuspendedNot(mutation) ==
  /\ invs' = Append(invs,
       Invocation(mutation, "pending", Undefined, "armed", "open"))
  /\ pc' = "loop"
  /\ i' = i + 1
  /\ UNCHANGED <<results, outcome, thrown>>

\* await of a race whose validator returned a promise: the call suspends
Suspended(mutation) ==
  /\ invs' = Append(invs,
       Invocation(mutation, "pending", Undefined, "armed", "open"))
  /\ pc' = "await"
  /\ UNCHANGED <<results, i, outcome, thrown>>

\* Promise.race([validator(mutation), new Promise(... setTimeout ...)]):
\* the validator throws synchronously (no timer is created), returns a
\* boolean (wins the race at once, the timer stays armed) or returns a
\* promise (the call suspends at the await)
InvokeValidator ==
  /\ pc = "loop"
  /\ i <= Len(mutations[k])
  /\ LET mutation == mutations[k][i]
     IN  \/ /\ call.validator = "any"
            /\ \E error \in ThrownValues :
                 /\ invs' = Append(invs,
                      Invocation(mutation, "rejected", error, "none", "validator"))
                 /\ Caught(mutation, error)
         \/ /\ call.validator = "any"
            /\ \E isValid \in {Bool(TRUE), Bool(FALSE)} :
                 /\ invs' = Append(invs,
                      Invocation(mutation, "fulfilled", isValid, "armed", "validator"))
                 /\ Settled(mutation, isValid)
         \/ /\ call.validator = "any"
            /\ Suspended(mutation)
         \/ /\ call.validator # "any"
            /\ LET isValid == ValidatorApply(call.validator, mutation)
               IN  /\ invs' = Append(invs,
                        Invocation(mutation, "fulfilled", isValid, "armed", "validator"))
                   /\ Settled(mutation, isValid)
  /\ UNCHANGED <<includeDefaults, operators, registered, query, answer, prop,
                 call, k, mutations, returned,
                 allResults, mutateLog>>

\* [mutant] a settlement of a decided race rewrites the recorded result
LoserOverwrites(j, s) ==
  /\ results' = [results EXCEPT ![invs[j].entry][invs[j].index] =
                   IF s[1] = "fulfilled"
                     THEN ClassifySettled(invs[j].value, s[2])
                     ELSE ClassifyThrown(invs[j].value, s[2])]
  /\ UNCHANGED <<i, pc, outcome, thrown>>

\* settlement s of the j-th race's loser: a promise settles only once, so
\* resolve/reject on the decided race is a no-op
LoserIgnored(j, s) == UNCHANGED <<results, i, pc, outcome, thrown>>

\* what a promise returned by the validator may settle with
Settlements ==
  {<<"fulfilled", Bool(TRUE)>>, <<"fulfilled", Bool(FALSE)>>}
    \cup {<<"rejected", error>> : error \in ThrownValues}

\* the promise returned by the j-th validator invocation settles; the race
\* it belongs to is either still open (the call is suspended on it) or
\* already decided by the timer, and then nothing listens
ValidatorSettles(j) ==
  /\ pc \in {"await", "done"}
  /\ invs[j].out = "pending"
  /\ \E s \in Settlements :
       /\ invs' = [invs EXCEPT
                     ![j].out = s[1],
                     ![j].settled = IF invs[j].race = "open" THEN s[2] ELSE @,
                     ![j].race = IF @ = "open" THEN "validator" ELSE @]
       /\ IF invs[j].race = "open"
            THEN IF s[1] = "fulfilled"
                   THEN Settled(invs[j].value, s[2])
                   ELSE Caught(invs[j].value, s[2])
            ELSE LoserIgnored(j, s)
  /\ UNCHANGED <<includeDefaults, operators, registered, query, answer, prop,
                 call, k, mutations, returned,
                 allResults, mutateLog>>

\* [mutant] the timer runs out but its rejection never reaches the race
TimerFiresLost(j) ==
  /\ pc \in {"await", "done"}
  /\ invs[j].timer = "armed"
  /\ \A h \in 1..(j - 1) : invs[h].timer # "armed"
  /\ invs' = [invs EXCEPT ![j].timer = "fired"]
  /\ UNCHANGED <<results, i, pc, outcome, thrown>>
  /\ UNCHANGED <<includeDefaults, operators, registered, query, answer, prop,
                 call, k, mutations, returned, allResults, mutateLog>>

\* the setTimeout callback of the j-th invocation runs: reject(new
\* Error('Timeout')).  Timers of one call have the same delay, so they run
\* in the order they were armed.
TimerFires(j) ==
  /\ pc \in {"await", "done"}
  /\ invs[j].timer = "armed"
  /\ \A h \in 1..(j - 1) : invs[h].timer # "armed"
  /\ invs' = [invs EXCEPT ![j].timer = "fired",
                          ![j].race = IF @ = "open" THEN "timer" ELSE @]
  /\ IF invs[j].race = "open"
       THEN Caught(invs[j].value, TimeoutError)
       ELSE LoserIgnored(j, <<"rejected", TimeoutError>>)
  /\ UNCHANGED <<includeDefaults, operators, registered, query, answer, prop,
                 call, k, mutations, returned,
                 allResults, mutateLog>>

\* [mutant] testAll keeps the first result stored under a name
ReturnTestFirstWins ==
  /\ pc = "loop"
  /\ i > Len(mutations[k])
  /\ LET r == MutationTestResult(call.tests[k].value, results[k])
     IN  /\ returned' = Append(returned, r)
         /\ IF call.kind = "testAll"
              THEN /\ allResults' =
                        IF call.tests[k].name \in DOMAIN allResults
                          THEN allResults
                          ELSE MapSet(allResults, call.tests[k].name, r)
                   /\ k' = k + 1
                   /\ pc' = "begin"
                   /\ UNCHANGED outcome
              ELSE /\ outcome' = "fulfilled"
                   /\ pc' = "done"
                   /\ UNCHANGED <<allResults, k>>
  /\ UNCHANGED <<includeDefaults, operators, registered, query, answer, prop,
                 call, i, mutations, results, invs, thrown, mutateLog>>

\* return { originalValue, mutations: results, summary }; in testAll the
\* awaited result is stored under the entry's name and the loop goes on
ReturnTest ==
  /\ pc = "loop"
  /\ i > Len(mutations[k])
  /\ LET r == MutationTestResult(call.tests[k].value, results[k])
     IN  /\ returned' = Append(returned, r)
         /\ IF call.kind = "testAll"
              THEN /\ allResults' = MapSet(allResults, call.tests[k].name, r)
                   /\ k' = k + 1
                   /\ pc' = "begin"
                   /\ UNCHANGED outcome
              ELSE /\ outcome' = "fulfilled"
                   /\ pc' = "done"
                   /\ UNCHANGED <<allResults, k>>
  /\ UNCHANGED <<includeDefaults, operators, registered, query, answer, prop,
                 call, i, mutations, results, invs,
                 thrown, mutateLog>>

\* testAll: the for-of loop is exhausted, return results
ReturnTestAll ==
  /\ pc = "begin"
  /\ call.kind = "testAll"
  /\ k > Len(call.tests)
  /\ outcome' = "fulfilled"
  /\ pc' = "done"
  /\ UNCHANGED <<includeDefaults, operators, registered, query, answer, prop,
                 call, k, i, mutations, results, invs,
                 returned, allResults, thrown, mutateLog>>

Next ==
  \/ \E operator \in CustomOperators : Register(operator)
  \/ \E input \in TestInputs : CallTest(input)
  \/ \E input \in TestWithOperatorInputs : CallTestWithOperator(input)
  \/ \E tests \in SeqsUpTo(BatchEntries, MaxTests) : CallTestAll(tests)
  \/ BeginTest
  \/ BeginTestWithOperator
  \/ InvokeValidator
  \/ \E j \in 1..Len(invs) : ValidatorSettles(j)
  \/ \E j \in 1..Len(invs) : TimerFires(j)
  \/ ReturnTest
  \/ ReturnTestAll

Spec == Init /\ [][Next]_vars

\* direct use of a registry and of the operators, without a runner
RegistryNext ==
  \/ \E operator \in RegisterInputs : Register(operator)
  \/ GetOperatorCall
  \/ GetAllOperatorsCall
  \/ MutateCall
  \/ OperatorMutateCall

RegistrySpec == Init /\ [][RegistryNext]_vars

\* a single call of test or testWithOperator on a constructed registry.  The
\* call's own steps are taken whenever they can be (the event loop runs the
\* continuation of a settled await) and an armed timer eventually fires;
\* nothing is assumed of the validators' promises, which may never settle.
SomeTimerFires == \E j \in 1..Len(invs) : TimerFires(j)

LiveNext ==
  \/ \E input \in TestInputs : CallTest(input)
  \/ \E input \in TestWithOperatorInputs : CallTestWithOperator(input)
  \/ BeginTest
  \/ BeginTestWithOperator
  \/ InvokeValidator
  \/ \E j \in 1..Len(invs) : ValidatorSettles(j)
  \/ SomeTimerFires
  \/ ReturnTest

LiveSpec ==
  /\ Init
  /\ [][LiveNext]_vars
  /\ WF_vars(BeginTest)
  /\ WF_vars(BeginTestWithOperator)
  /\ WF_vars(InvokeValidator)
  /\ WF_vars(ReturnTest)
  /\ WF_vars(SomeTimerFires)

\* a call of PropertyTestRunner.test
PropertyNext ==
  \/ \E numRuns \in NumRunsOptions : PropertyTestCall(numRuns)
  \/ PropertyGenerate
  \/ PropertyCheck
  \/ PropertyReturn

PropertySpec == Init /\ [][PropertyNext]_vars

\* ------------------------------------------------------------------------
\* Properties
\* ------------------------------------------------------------------------
Invocations == 1..Len(invs)

\* the result recorded for the j-th invocation
ResultOf(j) == results[invs[j].entry][invs[j].index]

\* the invocation's validator raised: threw synchronously or rejected its
\* promise while the race was open
Raised(j) == invs[j].race = "validator" /\ invs[j].out = "rejected"

\* the invocation's timer won the race
TimedOut(j) == invs[j].race = "timer"

\* the validator settled with a boolean before the timeout
Answered(j) == invs[j].race = "validator" /\ invs[j].out = "fulfilled"

\* C1: for every candidate whose validator settles with a boolean before the
\* timeout, the recorded result has caught = true if it answered false and
\* caught = false if it answered true, and carries no error.
C1_Classification ==
  \A j \in Invocations :
    Answered(j) =>
      /\ invs[j].settled = Bool(FALSE) => ResultOf(j).caught = TRUE
      /\ invs[j].settled = Bool(TRUE) => ResultOf(j).caught = FALSE
      /\ "error" \notin DOMAIN ResultOf(j)
      /\ ResultOf(j).value = invs[j].value

C1_Witness ==
  /\ call.kind = "testWithOperator"
  /\ outcome = "fulfilled"
  /\ \E j \in Invocations : Answered(j) /\ invs[j].settled = Bool(FALSE)
  /\ \E j \in Invocations : Answered(j) /\ invs[j].settled = Bool(TRUE)

\* C2: whenever the validator raises (with any thrown value) or the timeout
\* fires first, the result has caught = true and its error is populated; a
\* validator that throws on every input gives uncaught = 0 and an error on
\* every result.
C2_ErrorPopulated ==
  /\ \A j \in Invocations :
       (Raised(j) \/ TimedOut(j)) =>
         /\ ResultOf(j).caught = TRUE
         /\ ErrorOf(ResultOf(j)) # Undefined
  /\ \A e \in 1..Len(returned) :
       (\A j \in Invocations : invs[j].entry = e => Raised(j)) =>
         /\ returned[e].summary.uncaught = 0
         /\ \A n \in 1..Len(returned[e].mutations) :
              ErrorOf(returned[e].mutations[n]) # Undefined

\* C3: every returned MutationTestResult has caught + uncaught = total and
\* errors <= caught.
C3_SummaryConsistent ==
  \A e \in 1..Len(returned) :
    /\ returned[e].summary.caught + returned[e].summary.uncaught
         = returned[e].summary.total
    /\ returned[e].summary.errors <= returned[e].summary.caught

C3_Witness ==
  \E e \in 1..Len(returned) :
    /\ returned[e].summary.total >= 3
    /\ returned[e].summary.uncaught >= 1
    /\ returned[e].summary.errors >= 1
    /\ returned[e].summary.caught > returned[e].summary.errors

\* C4: the summary is a fold over the mutations list: total is its length,
\* caught and uncaught count the results by their caught flag, and errors is
\* the number of results on which an error is present, i.e. the number of
\* mutations whose validator raised or timed out.
C4_SummaryIsFold ==
  \A e \in 1..Len(returned) :
    LET rs == returned[e].mutations
        sm == returned[e].summary
    IN  /\ sm.total = Len(rs)
        /\ sm.caught = Cardinality({n \in 1..Len(rs) : rs[n].caught})
        /\ sm.uncaught = Cardinality({n \in 1..Len(rs) : ~rs[n].caught})
        /\ sm.errors = Cardinality({n \in 1..Len(rs) : "error" \in DOMAIN rs[n]})
        /\ sm.errors = Cardinality({j \in Invocations :
                          invs[j].entry = e /\ (Raised(j) \/ TimedOut(j))})

\* C5: a throw or timeout never aborts the loop: the returned list has one
\* result per candidate, in the candidates' order and with the candidate as
\* its value, and the validator was invoked exactly once for every candidate.
C5_Isolation ==
  /\ \A e \in 1..Len(returned) :
       /\ Len(returned[e].mutations) = Len(mutations[e])
       /\ \A n \in 1..Len(mutations[e]) :
            /\ returned[e].mutations[n].value = mutations[e][n]
            /\ Cardinality({j \in Invocations :
                  invs[j].entry = e /\ invs[j].index = n}) = 1
  /\ \A j \in Invocations :
       /\ invs[j].value = mutations[invs[j].entry][invs[j].index]
       /\ \A h \in Invocations :
            (h # j) => <<invs[h].entry, invs[h].index>> # <<invs[j].entry, invs[j].index>>

C5_Witness ==
  \E e \in 1..Len(returned) :
    /\ Len(returned[e].mutations) = 4
    /\ ErrorOf(returned[e].mutations[1]) = TimeoutError
    /\ ErrorOf(returned[e].mutations[2]) = Err("Boom")
    /\ returned[e].mutations[3].caught = FALSE
    /\ ErrorOf(returned[e].mutations[4]) = TimeoutError

\* C6 as stated: at every point of a test call at most one validator
\* invocation started by it is still unsettled.
C6_AtMostOneUnsettled ==
  call.kind = "test" =>
    Cardinality({j \in Invocations : invs[j].out = "pending"}) <= 1

\* C6 amended: at most one validator invocation is being waited for; any other
\* unsettled invocation is one whose timeout has already fired.
C6_AtMostOneAwaited ==
  /\ Cardinality({j \in Invocations : invs[j].race = "open"}) <= 1
  /\ \A j \in Invocations :
       invs[j].race = "open" => j = Len(invs) /\ pc = "await"
  /\ \A j \in Invocations :
       (invs[j].out = "pending" /\ invs[j].race # "open") => TimedOut(j)

C6_Witness ==
  /\ call.kind = "test"
  /\ Cardinality({j \in Invocations : invs[j].out = "pending"}) >= 2
  /\ \E j \in Invocations : invs[j].race = "open"

\* C7: a recorded result never changes: neither the results list of a test
\* nor a returned MutationTestResult (with its summary) is altered by a later
\* step, in particular not by a validator settling after its timeout fired or
\* a timer firing after its validator settled.
C7_ResultsStable ==
  [][ /\ Len(results') >= Len(results)
      /\ \A e \in 1..Len(results) :
           /\ Len(results'[e]) >= Len(results[e])
           /\ \A n \in 1..Len(results[e]) : results'[e][n] = results[e][n]
      /\ Len(returned') >= Len(returned)
      /\ \A e \in 1..Len(returned) : returned'[e] = returned[e]
    ]_vars

C7_Witness ==
  /\ outcome = "fulfilled"
  /\ \E j \in Invocations : TimedOut(j) /\ invs[j].out = "fulfilled"
  /\ \E j \in Invocations : TimedOut(j) /\ invs[j].out = "rejected"
  /\ \E j \in Invocations : Answered(j) /\ invs[j].timer = "fired"

\* the test of the entry the call is at failed before its loop started
SetupFailed == Len(mutations) < k

\* C8: a validator exception or timeout never propagates out of test,
\* testWithOperator or testAll: the call is rejected only before any
\* validator of the failing test was invoked (inapplicable operator, or a
\* throw while the candidates are produced), and once its loop is over it
\* has completed with a result.
C8_NoPropagation ==
  /\ outcome = "rejected" =>
       /\ SetupFailed
       /\ \A j \in Invocations : invs[j].entry # k
       /\ \/ /\ call.kind = "testWithOperator"
             /\ ~IsApplicable(call.operator, call.tests[k].value)
          \/ /\ call.kind = "testWithOperator"
             /\ OperatorMutate(call.operator, call.tests[k].value).threw
          \/ /\ call.kind \in {"test", "testAll"}
             /\ RegistryMutate(operators, call.tests[k].value, call.tests[k].type).threw
  /\ pc = "done" => outcome \in {"fulfilled", "rejected"}
  /\ (pc = "done" /\ ~SetupFailed) => outcome = "fulfilled"

C8_Witness ==
  /\ call.kind = "testAll"
  /\ outcome = "fulfilled"
  /\ \E j \in Invocations : TimedOut(j) /\ invs[j].out = "pending"
  /\ \E j \in Invocations : Raised(j) /\ invs[j].timer = "none"

\* C9: testWithOperator fails fast: with isApplicable(seed) false the call
\* is rejected with the precondition error, operator.mutate is never called
\* and no validator is invoked; with isApplicable(seed) true no precondition
\* error is raised.
C9_FailFast ==
  (call.kind = "testWithOperator" /\ pc # "begin") =>
    IF IsApplicable(call.operator, call.tests[1].value)
      THEN /\ thrown # NotApplicableError
           /\ mutateLog = << <<call.operator, call.tests[1].value>> >>
      ELSE /\ outcome = "rejected"
           /\ thrown = NotApplicableError
           /\ pc = "done"
           /\ mutateLog = <<>>
           /\ invs = <<>>

C9_Witness ==
  /\ call.kind = "testWithOperator"
  /\ ~IsApplicable(call.operator, call.tests[1].value)
  /\ outcome = "rejected"

\* the test of entry e throws while its candidates are produced
EntryThrows(e) ==
  RegistryMutate(operators, call.tests[e].value, call.tests[e].type).threw

\* C10: testAll entries are independent: when an entry's test throws a setup
\* error, every other entry is still run and its result appears in the
\* returned mapping.
C10_EntriesIndependent ==
  (call.kind = "testAll" /\ pc = "done") =>
    \A e \in 1..Len(call.tests) :
      ~EntryThrows(e) =>
        /\ call.tests[e].name \in DOMAIN allResults
        /\ Len(returned) = Cardinality({m \in 1..Len(call.tests) : ~EntryThrows(m)})

\* C11: testAll runs its entries one after the other in array order: the test
\* of an entry is started, and a validator of it invoked, only when the tests
\* of all entries before it have returned their results; the invocations are
\* made in entry order and the results are returned in array order.
C11_Sequential ==
  call.kind = "testAll" =>
    /\ Len(mutations) <= Len(returned) + 1
    /\ Len(returned) <= Len(mutations)
    /\ \A j \in Invocations : invs[j].entry <= Len(returned) + 1
    /\ \A h, j \in Invocations : h < j => invs[h].entry <= invs[j].entry
    /\ \A j \in Invocations :
         invs[j].race = "open" => invs[j].entry = Len(returned) + 1
    /\ \A e \in 1..Len(returned) :
         returned[e].originalValue = call.tests[e].value

C11_Witness ==
  /\ call.kind = "testAll"
  /\ Len(call.tests) = 2
  /\ Len(returned) = 1
  /\ \E j \in Invocations :
       invs[j].entry = 1 /\ TimedOut(j) /\ invs[j].out = "pending"
  /\ \E j \in Invocations : invs[j].entry = 2 /\ invs[j].race = "open"

\* the last entry of the tests array that carries the name
LastEntryNamed(name) ==
  CHOOSE e \in 1..Len(call.tests) :
    /\ call.tests[e].name = name
    /\ \A m \in 1..Len(call.tests) : call.tests[m].name = name => m <= e

\* C12: the mapping testAll returns has exactly one key per distinct entry
\* name; under a name shared by several entries it holds the result of the
\* last such entry in array order; and every entry, the overwritten ones
\* included, was executed: one result was produced per entry, with one
\* validator invocation per candidate of the entry.
C12_LastNameWins ==
  (call.kind = "testAll" /\ outcome = "fulfilled") =>
    /\ DOMAIN allResults = {call.tests[e].name : e \in 1..Len(call.tests)}
    /\ \A name \in DOMAIN allResults :
         allResults[name] = returned[LastEntryNamed(name)]
    /\ Len(returned) = Len(call.tests)
    /\ \A e \in 1..Len(call.tests) :
         /\ returned[e].originalValue = call.tests[e].value
         /\ Len(returned[e].mutations) = Len(mutations[e])
         /\ \A n \in 1..Len(mutations[e]) :
              \E j \in Invocations : invs[j].entry = e /\ invs[j].index = n

C12_Witness ==
  /\ call.kind = "testAll"
  /\ outcome = "fulfilled"
  /\ Len(call.tests) = 2
  /\ call.tests[1].name = call.tests[2].name
  /\ returned[1] # returned[2]
  /\ \E j \in Invocations : invs[j].entry = 1

\* the register calls made by the constructor, in order
DefaultsLog ==
  <<"AddressMutator", "BlockTagMutator", "BlockNumberMutator", "HashMutator",
    "BooleanMutator", "NumberMutator", "StringMutator", "ArrayMutator">>

\* every register call made on the registry so far, in order
RegisterLog == (IF includeDefaults THEN DefaultsLog ELSE <<>>) \o registered

\* the operator of the latest register call for the name, if there was one
LastRegistered(name) ==
  LET calls == {n \in 1..Len(RegisterLog) :
                  OperatorTypeName(RegisterLog[n]) = name}
  IN  IF calls = {}
        THEN NoOperator
        ELSE RegisterLog[CHOOSE n \in calls : \A m \in calls : m <= n]

\* C13: after any sequence of register calls the registry holds at most one
\* operator per type name, bound under its own type name, and the last
\* registration for a name wins: getOperator(d) returns the operator of the
\* latest register call whose type.name is d.name, whichever descriptor
\* object d is, and nothing if there was none; a register call leaves the
\* operators of all other names as they were.
C13_LastRegistrationWins ==
  /\ [](/\ \A name \in TypeNames :
            GetOperator(operators, name) = LastRegistered(name)
        /\ DOMAIN operators \subseteq TypeNames
        /\ \A name \in DOMAIN operators :
            OperatorTypeName(operators[name]) = name
        /\ query.method = "getOperator" =>
            answer = Normal(LastRegistered(query.type.name)))
  /\ [][ IF registered' # registered
           THEN LET operator == registered'[Len(registered')]
                IN  /\ GetOperator(operators', OperatorTypeName(operator)) = operator
                    /\ \A name \in TypeNames \ {OperatorTypeName(operator)} :
                         GetOperator(operators', name) = GetOperator(operators, name)
           ELSE operators' = operators ]_vars

C13_Witness ==
  /\ includeDefaults
  /\ registered = <<"KeepMutator", "BooleanMutator">>
  /\ query.method = "getOperator"
  /\ query.type = [name |-> "Boolean", object |-> "other"]
  /\ answer = Normal("BooleanMutator")

\* C14: registry.mutate(value, descriptor) returns exactly
\* operator.mutate(value) when an operator is registered under
\* descriptor.name and its isApplicable(value) holds; in every other case it
\* returns the one-element sequence [value] and raises nothing; the
\* registry's contents are the same after the call.
C14_MutateFallback ==
  query.method = "mutate" =>
    LET operator == LastRegistered(query.type.name)
    IN  /\ IF operator # NoOperator /\ OperatorTypeIsValid(operator, query.value)
              THEN answer = OperatorMutate(operator, query.value)
              ELSE answer = Normal(<<query.value>>)
        /\ \A name \in TypeNames :
             GetOperator(operators, name) = LastRegistered(name)
        /\ DOMAIN operators \subseteq TypeNames

C14_Witness ==
  /\ query.method = "mutate"
  /\ query.type.name = "Boolean"
  /\ LastRegistered("Boolean") = "BooleanMutator"
  /\ query.value = Str(<<"a">>)
  /\ answer = Normal(<<Str(<<"a">>)>>)

\* C15: a default-constructed registry holds exactly the eight built-in
\* operators, each under a type name of its own, so getAllOperators() has
\* eight entries; a registry constructed with includeDefaults = false holds
\* none.
C15_EightDefaults ==
  registered = <<>> =>
    /\ includeDefaults =>
         /\ GetAllOperators(operators) = BuiltinOperators
         /\ Cardinality(GetAllOperators(operators)) = 8
         /\ Cardinality(DOMAIN operators) = 8
         /\ \A a, b \in BuiltinOperators :
              a # b => OperatorTypeName(a) # OperatorTypeName(b)
    /\ ~includeDefaults =>
         /\ GetAllOperators(operators) = {}
         /\ DOMAIN operators = {}
    /\ query.method = "getAllOperators" =>
         answer = Normal(IF includeDefaults THEN BuiltinOperators ELSE {})

C15_Witness ==
  /\ includeDefaults
  /\ registered = <<>>
  /\ query.method = "getAllOperators"
  /\ Cardinality(answer.value) = 8

\* the value is a valid seed of the built-in type with the descriptor name
ValidSeed(value, name) ==
  \E operator \in BuiltinOperators :
    /\ OperatorTypeName(operator) = name
    /\ OperatorTypeIsValid(operator, value)

\* C16: on the default registry, mutate(v, d) for a valid seed v of a
\* supported type d returns normally with at least one element, the empty
\* string and the empty array included.
C16_NonEmpty ==
  ( /\ query.method = "mutate"
    /\ includeDefaults
    /\ registered = <<>>
    /\ ValidSeed(query.value, query.type.name) ) =>
      /\ ~answer.threw
      /\ Len(answer.value) >= 1

C16_Witness ==
  /\ query.method = "mutate"
  /\ includeDefaults
  /\ registered = <<>>
  /\ query.value = Str(<<>>)
  /\ query.type.name = "String"
  /\ Len(answer.value) = 6

\* C17: every timer raced against a validator invocation is created with the
\* delay options.timeout when the caller supplied a timeout and with 5000 when
\* it did not, and every invocation that reaches the race has a timer of its
\* own with that full delay.
C17_TimeoutHonoured ==
  \A j \in Invocations :
    invs[j].timer # "none" =>
      invs[j].delay =
        IF call.timeout # Undefined THEN call.timeout ELSE Num(IntOf(5000))

\* C18: for every tag of the enum, BlockTagMutator.mutate(tag) returns the
\* other four members, each once, and not the seed.
C18_BlockTagOthers ==
  (query.method = "operator.mutate" /\ query.operator = "BlockTagMutator") =>
    /\ query.value \in Range(AllTags)
    /\ Cardinality(Range(AllTags)) = 5
    /\ ~answer.threw
    /\ Len(answer.value) = 4
    /\ Range(answer.value) = Range(AllTags) \ {query.value}

C18_Witness ==
  /\ query.method = "operator.mutate"
  /\ query.operator = "BlockTagMutator"
  /\ query.value = Str(<<"p", "e", "n", "d", "i", "n", "g">>)
  /\ answer.value = << Str(<<"l", "a", "t", "e", "s", "t">>),
                       Str(<<"e", "a", "r", "l", "i", "e", "s", "t">>),
                       Str(<<"s", "a", "f", "e">>),
                       Str(<<"f", "i", "n", "a", "l", "i", "z", "e", "d">>) >>

\* C19: BooleanMutator.mutate(true) is [false] and mutate(false) is [true]:
\* a singleton holding the negation.
C19_BooleanNegation ==
  (query.method = "operator.mutate" /\ query.operator = "BooleanMutator") =>
    /\ query.value \in {Bool(TRUE), Bool(FALSE)}
    /\ query.value = Bool(TRUE) => answer = Normal(<<Bool(FALSE)>>)
    /\ query.value = Bool(FALSE) => answer = Normal(<<Bool(TRUE)>>)

C19_Witness ==
  /\ query.method = "operator.mutate"
  /\ query.operator = "BooleanMutator"
  /\ query.value = Bool(TRUE)
  /\ answer.value = <<Bool(FALSE)>>

\* C20: ArrayMutator.mutate([]) is a one-element list holding the array
\* [null]; for a non-empty seed it is six arrays in this order: the empty
\* array, the seed without its first element, the seed without its last
\* element, the seed with its first element appended, the seed reversed, and
\* the array of its first element.
C20_ArrayVariants ==
  (query.method = "operator.mutate" /\ query.operator = "ArrayMutator") =>
    LET elems == query.value[2]
        out == answer.value
    IN  /\ ~answer.threw
        /\ IF elems = <<>>
             THEN out = << Arr(<<Null>>) >>
             ELSE /\ Len(out) = 6
                  /\ out[1] = Arr(<<>>)
                  /\ out[2] = Arr(Tail(elems))
                  /\ out[3] = Arr([n \in 1..(Len(elems) - 1) |-> elems[n]])
                  /\ out[4] = Arr(Append(elems, Head(elems)))
                  /\ TypeOf(out[5]) = "array"
                  /\ Len(out[5][2]) = Len(elems)
                  /\ \A n \in 1..Len(elems) :
                       out[5][2][n] = elems[Len(elems) + 1 - n]
                  /\ out[6] = Arr(<<Head(elems)>>)

C20_Witness ==
  /\ query.method = "operator.mutate"
  /\ query.operator = "ArrayMutator"
  /\ query.value = Arr(<<Null, Bool(TRUE)>>)
  /\ answer.value[5] = Arr(<<Bool(TRUE), Null>>)
  /\ answer.value[2] = Arr(<<Bool(TRUE)>>)

\* the call is runner.test(seed, descriptor named type, validator) on a
\* default-constructed registry, and it has returned
ScenarioReturned(seed, type, validator) ==
  /\ call.kind = "test"
  /\ call.tests[1].value = seed
  /\ call.tests[1].type = type
  /\ call.validator = validator
  /\ includeDefaults
  /\ registered = <<>>
  /\ outcome = "fulfilled"

\* C21: scenario 2: test of seed 42 with the Number descriptor and the
\* validator v => v === 42 on the default registry returns total = 8,
\* caught = 8, uncaught = 0, the candidates being 0, 43, 41, -42, 84, 21,
\* the maximum and the minimum safe integer, none of them 42.
C21_NumberScenario ==
  ScenarioReturned(Num(IntOf(42)), "Number", "equals42") =>
    /\ returned[1].summary.total = 8
    /\ returned[1].summary.caught = 8
    /\ returned[1].summary.uncaught = 0
    /\ [n \in 1..8 |-> returned[1].mutations[n].value] =
         << Num(IntOf(0)), Num(IntOf(43)), Num(IntOf(41)), Num(IntOf(-42)),
            Num(IntOf(84)), Num(IntOf(21)),
            Num([neg |-> FALSE, mag |-> <<65535, 65535, 65535, 31>>]),
            Num([neg |-> TRUE, mag |-> <<65535, 65535, 65535, 31>>]) >>
    /\ \A n \in 1..8 : returned[1].mutations[n].value # Num(IntOf(42))
    /\ returned[1].originalValue = Num(IntOf(42))

C21_Witness ==
  /\ ScenarioReturned(Num(IntOf(42)), "Number", "equals42")
  /\ Len(invs) = 8
  /\ returned[1].summary.caught = 8

\* C22: scenario 1: test of the checksummed address 0xC02a...6Cc2 with the
\* Address descriptor and a validator accepting exactly the strictly valid
\* addresses returns total = 5, and the results of the all-zero-address
\* candidate (the fourth) and of the corrupted-character candidate (the
\* fifth) both have caught = true.
C22_AddressScenario ==
  ScenarioReturned(Str(WethAddress), "Address", "isAddress") =>
    /\ returned[1].summary.total = 5
    /\ returned[1].mutations[4].value = Str(ZeroAddress)
    /\ returned[1].mutations[4].caught = TRUE
    /\ returned[1].mutations[5].caught = TRUE

\* C23: for a non-negative seed n, BlockNumberMutator.mutate(n) is the six
\* values 0, 1, n + 1, n - 1, 2^64 - 1, -1 in this order, without
\* wrap-around: n - 1 is -1 for n = 0 and n + 1 is 2^64 for n = 2^64 - 1.
C23_BlockNumberVariants ==
  (query.method = "operator.mutate" /\ query.operator = "BlockNumberMutator") =>
    LET seed == query.value[2]
        out == answer.value
        top == [neg |-> FALSE, mag |-> <<65535, 65535, 65535, 65535>>]
        small == IF seed.mag = <<>> THEN 0 ELSE seed.mag[1]
    IN  /\ TypeOf(query.value) = "bigint"
        /\ ~seed.neg
        /\ ~answer.threw
        /\ Len(out) = 6
        /\ out[1] = BigIntV([neg |-> FALSE, mag |-> <<>>])
        /\ out[2] = BigIntV([neg |-> FALSE, mag |-> <<1>>])
        /\ out[5] = BigIntV(top)
        /\ out[6] = BigIntV([neg |-> TRUE, mag |-> <<1>>])
        /\ IF seed = top
             THEN /\ out[3] = BigIntV([neg |-> FALSE, mag |-> <<0, 0, 0, 0, 1>>])
                  /\ out[4] = BigIntV([neg |-> FALSE,
                                       mag |-> <<65534, 65535, 65535, 65535>>])
             ELSE /\ Len(seed.mag) <= 1
                  /\ out[3] = BigIntV(IntOf(small + 1))
                  /\ out[4] = BigIntV(IntOf(small - 1))

C23_Witness ==
  /\ query.method = "operator.mutate"
  /\ query.operator = "BlockNumberMutator"
  /\ query.value = BigIntV([neg |-> FALSE, mag |-> <<65535, 65535, 65535, 65535>>])
  /\ answer.value[3] = BigIntV([neg |-> FALSE, mag |-> <<0, 0, 0, 0, 1>>])

\* C24: StringMutator.mutate never throws and returns six strings in this
\* order: the empty string, the seed with one character appended, the seed
\* without its last character, the seed in upper case, the seed in lower
\* case, the seed reversed; for the empty seed the third is the empty string.
C24_StringVariants ==
  (query.method = "operator.mutate" /\ query.operator = "StringMutator") =>
    LET chars == query.value[2]
        out == answer.value
    IN  /\ ~answer.threw
        /\ Len(out) = 6
        /\ \A n \in 1..6 : TypeOf(out[n]) = "string"
        /\ out[1] = Str(<<>>)
        /\ out[2] = Str(Append(chars, "X"))
        /\ out[3] = Str([n \in 1..(Len(chars) - 1) |-> chars[n]])
        /\ chars = <<>> => out[3] = Str(<<>>)
        /\ Len(out[4][2]) = Len(chars)
        /\ Len(out[5][2]) = Len(chars)
        /\ \A n \in 1..Len(chars) :
             /\ out[4][2][n] = ToUpperChar(chars[n])
             /\ out[5][2][n] = ToLowerChar(chars[n])
             /\ chars[n] = "a" => out[4][2][n] = "A"
             /\ chars[n] = "B" => out[5][2][n] = "b"
        /\ Len(out[6][2]) = Len(chars)
        /\ \A n \in 1..Len(chars) : out[6][2][n] = chars[Len(chars) + 1 - n]

C24_Witness ==
  /\ query.method = "operator.mutate"
  /\ query.operator = "StringMutator"
  /\ query.value = Str(<<"a", "B">>)
  /\ answer.value = << Str(<<>>), Str(<<"a", "B", "X">>), Str(<<"a">>),
                       Str(<<"A", "B">>), Str(<<"a", "b">>), Str(<<"B", "a">>) >>

\* C25: PropertyTestRunner.test always completes with a result and
\* classifies the run by its first non-passing sample: it stops at the first
\* value whose predicate returns false and returns success = false with that
\* value as counterexample and no error; when generate or the predicate
\* throws it stops and returns success = false with an error carrying the
\* thrown error's message; when every sample passes it returns success = true
\* with neither counterexample nor error.  One value is generated per sample
\* checked.
C25_FirstFailureClassifies ==
  /\ prop.pc \in {"idle", "loop", "check", "return", "done"}
  /\ prop.calls <= prop.i + 1
  /\ prop.pc = "done" =>
       LET r == prop.result
           kind == prop.stop[1]
       IN  /\ kind = "predicate false" =>
                /\ r.success = FALSE
                /\ r.counterexample = prop.value
                /\ r.counterexample \in GeneratedValues
                /\ r.error = Undefined
                /\ prop.calls = prop.i + 1
           /\ kind \in {"generate threw", "predicate threw"} =>
                /\ r.success = FALSE
                /\ TypeOf(r.error) = "error"
                /\ TypeOf(prop.stop[2]) = "error" => r.error = prop.stop[2]
                /\ prop.stop[2] = Undefined => r.error = Err("undefined")
                /\ r.counterexample = Undefined
                /\ prop.calls = prop.i + 1
           /\ kind = "none" =>
                /\ r.success = TRUE
                /\ r.counterexample = Undefined
                /\ r.error = Undefined
                /\ prop.calls = prop.i
           /\ r.success = (kind = "none")

C25_Witness ==
  /\ prop.pc = "done"
  /\ prop.stop[1] = "predicate false"
  /\ prop.i = 2
  /\ prop.calls = 3
  /\ prop.result.counterexample = Num(IntOf(42))
  /\ prop.result.success = FALSE

\* C26: the result's numRuns is the numRuns value supplied in the options,
\* and property.generate is called at most numRuns times during the run.
C26_NumRunsRespected ==
  (prop.pc = "done" /\ prop.options # Undefined) =>
    /\ prop.result.numRuns = prop.options
    /\ prop.calls <= ToInt(prop.options)

\* C27: a call of test or testWithOperator that obtained its candidate list
\* eventually returns its result, whether or not the validators' promises
\* ever settle, provided armed timers eventually fire; an invocation whose
\* timer fired first yields a caught result carrying the timeout error.
C27_Terminates ==
  /\ (pc \in {"loop", "await"}) ~> (pc = "done" /\ outcome = "fulfilled")
  /\ (pc = "begin") ~> (pc = "done")
  /\ [](\A j \in Invocations :
          TimedOut(j) =>
            /\ ResultOf(j).caught = TRUE
            /\ ErrorOf(ResultOf(j)) = TimeoutError)

C27_Witness ==
  /\ call.kind = "test"
  /\ outcome = "fulfilled"
  /\ Len(invs) = 4
  /\ \A j \in Invocations : TimedOut(j) /\ invs[j].out = "pending"
  /\ returned[1].summary.errors = 4

\* C28: on every path through the runner and the registry, operator.mutate
\* is called only with a seed that the operator's own descriptor accepts; a
\* seed the descriptor rejects reaches no mutate.
C28_MutateOnlyValidSeeds ==
  /\ \A n \in 1..Len(mutateLog) :
       OperatorTypeIsValid(mutateLog[n][1], mutateLog[n][2])
  /\ \A e \in 1..Len(mutations) :
       (/\ call.kind \in {"test", "testAll"}
        /\ GetOperator(operators, call.tests[e].type) # NoOperator
        /\ ~OperatorTypeIsValid(GetOperator(operators, call.tests[e].type),
                                call.tests[e].value))
         => \A n \in 1..Len(mutateLog) : mutateLog[n][2] # call.tests[e].value
  /\ (/\ call.kind = "testWithOperator"
      /\ pc # "begin"
      /\ ~OperatorTypeIsValid(call.operator, call.tests[1].value))
       => mutateLog = <<>>

C28_Witness ==
  /\ call.kind = "test"
  /\ call.tests[1].value = Bool(FALSE)
  /\ GetOperator(operators, call.tests[1].type) = "BlockTagMutator"
  /\ outcome = "fulfilled"
  /\ mutateLog = <<>>

\* the validator invocation made for the n-th candidate of the only test
InvocationOf(n) == CHOOSE j \in Invocations : invs[j].index = n

\* the result the pipeline yields for operator op, seed and the outcomes of
\* the validator invocations that were observed
PipelineResult(seed, op) ==
  LET candidates == OperatorMutate(op, seed).value
      rs == [n \in 1..Len(candidates) |->
              LET j == InvocationOf(n)
              IN  IF Answered(j)
                    THEN [value |-> candidates[n],
                          caught |-> ~Truthy(invs[j].settled)]
                    ELSE [value |-> candidates[n], caught |-> TRUE,
                          error |-> IF TimedOut(j) THEN TimeoutError
                                    ELSE invs[j].settled]]
  IN  [originalValue |-> seed, mutations |-> rs, summary |-> Summary(rs)]

\* the operator a finished call of test or testWithOperator worked with,
\* when that operator is registered under its type name and accepts the seed
PipelineOperator ==
  IF call.kind = "test"
    THEN GetOperator(operators, call.tests[1].type)
    ELSE call.operator

\* C29: test(seed, op.type, validator) and testWithOperator(seed, op,
\* validator), for an operator op registered under op.type.name that accepts
\* the seed, are the same pipeline: either call returns the result that is
\* determined by op.mutate(seed) and the per-candidate validator outcomes
\* alone, so with the same outcomes the two results are equal; and either
\* call is rejected exactly when op.mutate(seed) throws.
C29_SamePipeline ==
  ( /\ call.kind \in {"test", "testWithOperator"}
    /\ pc = "done"
    /\ PipelineOperator # NoOperator
    /\ GetOperator(operators, OperatorTypeName(PipelineOperator)) = PipelineOperator
    /\ IsApplicable(PipelineOperator, call.tests[1].value) ) =>
      IF OperatorMutate(PipelineOperator, call.tests[1].value).threw
        THEN /\ outcome = "rejected"
             /\ thrown = OperatorMutate(PipelineOperator, call.tests[1].value).error
        ELSE /\ outcome = "fulfilled"
             /\ returned = << PipelineResult(call.tests[1].value, PipelineOperator) >>

C29_Witness ==
  /\ call.kind = "testWithOperator"
  /\ call.operator = "BlockTagMutator"
  /\ GetOperator(operators, "BlockTag") = "BlockTagMutator"
  /\ outcome = "fulfilled"
  /\ Len(returned[1].mutations) = 4
  /\ returned[1].mutations[1].caught = FALSE
  /\ ErrorOf(returned[1].mutations[2]) = TimeoutError
  /\ returned[1].mutations[3].caught /\ "error" \notin DOMAIN returned[1].mutations[3]

\* the registry has no applicable operator for the call's seed and descriptor
LookupMiss ==
  \/ GetOperator(operators, call.tests[1].type) = NoOperator
  \/ ~IsApplicable(GetOperator(operators, call.tests[1].type), call.tests[1].value)

\* C30: on a registry lookup miss test does not fail: no operator's mutate is
\* called, the validator is invoked exactly once, on the seed itself, and the
\* result has total = 1 with the seed as its single mutation value,
\* classified by the ordinary rule: a validator accepting the seed gives
\* uncaught = 1.
C30_MissIsNoOp ==
  (call.kind = "test" /\ pc \notin {"idle", "begin"} /\ LookupMiss) =>
    LET seed == call.tests[1].value
    IN  /\ outcome # "rejected"
        /\ mutateLog = <<>>
        /\ mutations = << <<seed>> >>
        /\ Len(invs) <= 1
        /\ \A j \in Invocations : invs[j].value = seed
        /\ outcome = "fulfilled" =>
             /\ Len(invs) = 1
             /\ returned[1].originalValue = seed
             /\ returned[1].summary.total = 1
             /\ Len(returned[1].mutations) = 1
             /\ returned[1].mutations[1].value = returned[1].originalValue
             /\ Answered(1) =>
                  returned[1].mutations[1].caught = ~invs[1].settled[2]
             /\ (Answered(1) /\ invs[1].settled = Bool(TRUE)) =>
                  /\ returned[1].summary.uncaught = 1
                  /\ returned[1].summary.caught = 0
             /\ ~Answered(1) => returned[1].summary.caught = 1

C30_Witness ==
  /\ call.kind = "test"
  /\ call.tests[1].type = "Custom"
  /\ GetOperator(operators, "Custom") = NoOperator
  /\ outcome = "fulfilled"
  /\ Answered(1)
  /\ returned[1].summary.uncaught = 1

====
